---- MODULE Spec2Model ----
(***************************************************************************)
(* Gesture-driven heart cloud: the hand-pose classifier (VisionController), *)
(* the gesture state owned by App, and the photo gallery's focus selection  *)
(* (PhotoGallery), modelled as one state machine.                           *)
(*                                                                          *)
(* Units.  Landmark coordinates are normalised camera coordinates in        *)
(* hundredths (0.06 is 6, 0.35 is 35).  Scene points are integer scene      *)
(* units; world distances and scores are hundredths of a scene unit (the    *)
(* 500 penalty is 50000).  The hand anchor is in hundredths of a scene unit.*)
(* Square roots are floor square roots at that resolution.                  *)
(*                                                                          *)
(* React.  A state setter re-renders the component synchronously as part of *)
(* the handler that called it; the passive effect of that render runs as a  *)
(* later step (RunEffect), and React flushes it before it renders the next  *)
(* update, so the handlers wait for a pending effect.                       *)
(***************************************************************************)
EXTENDS Integers, Sequences, FiniteSets

\* ------------------------------------------------------------------ bounds

\* Largest number of photos in the gallery.
MaxPhotos == 2
\* Largest number of focus selections in a run.
MaxSelections == 3
\* Largest number of heart formations counted in a run.
MaxCycles == 2
\* Largest number of animation frames in a run.
MaxTicks == 200
\* The number of frames after which positions are compared with their targets.
SettleTicks == 170
\* The distance from a target that counts as having reached it, in
\* ten-thousandths of a scene unit.
Epsilon == 100

\* The number of animation frames followed when detections, effects and
\* frame callbacks interleave.
MaxFrames == 2

\* ------------------------------------------------------------- GestureState

DISPERSED == "DISPERSED"
FORMED == "FORMED"
ROTATING == "ROTATING"
FOCUSED == "FOCUSED"
LOADING == "LOADING"

GestureState == {DISPERSED, FORMED, ROTATING, FOCUSED, LOADING}

\* ------------------------------------------------------------------- maths

RECURSIVE SqrtIter(_, _, _)
\* The largest r in lo..hi with r*r <= n (bisection).
SqrtIter(n, lo, hi) ==
    IF lo >= hi THEN lo
    ELSE LET mid == (lo + hi + 1) \div 2
         IN  IF mid * mid <= n THEN SqrtIter(n, mid, hi)
             ELSE SqrtIter(n, lo, mid - 1)

\* Math.sqrt, rounded down to a whole unit.
\* (46340 is the largest root whose square is a 32-bit integer.)
Sqrt(n) == SqrtIter(n, 0, IF n < 46340 THEN n ELSE 46340)

\* ------------------------------------------------------------ hand poses

\* A landmark of the detector: normalised x, y and relative depth z.
HandLandmark(x, y, z) == [x |-> x, y |-> y, z |-> z]

\* result.landmarks of a detection: undefined, or a list of hands.
Landmarks(hands) == [defined |-> TRUE, hands |-> hands]
NoLandmarks == [defined |-> FALSE, hands |-> <<>>]

WristPos == HandLandmark(50, 90, 0)

\* A hand of 21 landmarks with the wrist at WristPos, the four finger tips
\* at the given distances from the wrist (each along its own direction, the
\* slanted ones along 3-4-5 triangles, so every distance is a multiple of 5)
\* and the thumb tip at the offset th from the index tip.
MakeHand(th, index, middle, ring, pinky) ==
    [i \in 0..20 |->
        CASE i = 4  -> HandLandmark(50 + th[1], 90 - index + th[2], 0)
          [] i = 8  -> HandLandmark(50, 90 - index, 0)
          [] i = 12 -> HandLandmark(50 - (3 * middle) \div 5, 90 - (4 * middle) \div 5, 0)
          [] i = 16 -> HandLandmark(50 + (3 * ring) \div 5, 90 - (4 * ring) \div 5, 0)
          [] i = 20 -> HandLandmark(50 + (4 * pinky) \div 5, 90 - (3 * pinky) \div 5, 0)
          [] OTHER  -> WristPos]

\* Thumb offsets from the index tip: pinch distances 4, 5, 6, 10, 15 and 30.
ThumbOffsets == {<<0, 0>>, <<4, 0>>, <<3, 4>>, <<6, 0>>, <<6, 8>>, <<9, 12>>, <<18, 24>>}
\* Tip-to-wrist distances of the index and middle finger.
LongExtensions == {10, 15, 20, 25, 30, 35, 40, 50, 80}
\* Tip-to-wrist distances of the ring and little finger.
ShortExtensions == {10, 15, 20, 25, 30, 50}

\* The hands the classifier is run on.
Hands ==
    {MakeHand(th, i, m, r, p) :
        th \in ThumbOffsets, i \in LongExtensions, m \in LongExtensions,
        r \in ShortExtensions, p \in ShortExtensions}

\* ------------------------------------------------- VisionController.detectGesture

\* dist that takes the depth along: the 3D distance of two landmarks.
distWithDepth(p1, p2) ==
    Sqrt((p1.x - p2.x) * (p1.x - p2.x) + (p1.y - p2.y) * (p1.y - p2.y)
            + (p1.z - p2.z) * (p1.z - p2.z))

\* dist: the 2D distance of two landmarks.
dist(p1, p2) ==
    Sqrt((p1.x - p2.x) * (p1.x - p2.x) + (p1.y - p2.y) * (p1.y - p2.y))

pinchDist(hand) == dist(hand[4], hand[8])
indexDist(hand) == dist(hand[8], hand[0])
middleDist(hand) == dist(hand[12], hand[0])
ringDist(hand) == dist(hand[16], hand[0])
pinkyDist(hand) == dist(hand[20], hand[0])

\* (indexDist + middleDist + ringDist + pinkyDist) / 4 < 0.25, the division
\* cleared: the sum is below 4 * 0.25.
avgTipToWristBelow(hand, limit) ==
    indexDist(hand) + middleDist(hand) + ringDist(hand) + pinkyDist(hand) < 4 * limit

\* classifyHand with the fist test moved ahead of the pinch and V-sign tests.
classifyHandFistFirst(hand) ==
    IF avgTipToWristBelow(hand, 25)
    THEN FORMED
    ELSE IF pinchDist(hand) < 6 /\ (middleDist(hand) > 20 \/ ringDist(hand) > 20)
    THEN FOCUSED
    ELSE IF /\ indexDist(hand) > 35 /\ middleDist(hand) > 35
            /\ ringDist(hand) < 25 /\ pinkyDist(hand) < 25
            /\ pinchDist(hand) > 10
    THEN ROTATING
    ELSE DISPERSED

\* classifyHand with a pinch test that does not look at the middle and ring
\* fingers.
classifyHandAnyPinch(hand) ==
    IF pinchDist(hand) < 6
    THEN FOCUSED
    ELSE IF /\ indexDist(hand) > 35 /\ middleDist(hand) > 35
            /\ ringDist(hand) < 25 /\ pinkyDist(hand) < 25
            /\ pinchDist(hand) > 10
    THEN ROTATING
    ELSE IF avgTipToWristBelow(hand, 25)
    THEN FORMED
    ELSE DISPERSED

\* classifyHand with a V-sign test that does not look at the little finger.
classifyHandNoPinky(hand) ==
    IF pinchDist(hand) < 6 /\ (middleDist(hand) > 20 \/ ringDist(hand) > 20)
    THEN FOCUSED
    ELSE IF /\ indexDist(hand) > 35 /\ middleDist(hand) > 35
            /\ ringDist(hand) < 25
            /\ pinchDist(hand) > 10
    THEN ROTATING
    ELSE IF avgTipToWristBelow(hand, 25)
    THEN FORMED
    ELSE DISPERSED

\* The classification of the first hand of a non-empty landmark list.
classifyHand(hand) ==
    IF pinchDist(hand) < 6 /\ (middleDist(hand) > 20 \/ ringDist(hand) > 20)
    THEN FOCUSED
    ELSE IF /\ indexDist(hand) > 35 /\ middleDist(hand) > 35
            /\ ringDist(hand) < 25 /\ pinkyDist(hand) < 25
            /\ pinchDist(hand) > 10
    THEN ROTATING
    ELSE IF avgTipToWristBelow(hand, 25)
    THEN FORMED
    ELSE DISPERSED

\* detectGesture(landmarks): the default when there is no hand, else the
\* classification of the first hand.
detectGesture(landmarks) ==
    IF ~landmarks.defined \/ Len(landmarks.hands) = 0
    THEN DISPERSED
    ELSE classifyHand(landmarks.hands[1])

\* The depths given to the 21 landmarks of a hand: a flat hand, thumb tip and
\* index tip 0.8 apart in depth, and a hand leaning away from the wrist.
DepthProfiles ==
    { [i \in 0..20 |-> 0],
      [i \in 0..20 |-> IF i = 4 THEN 40 ELSE IF i = 8 THEN -40 ELSE 0],
      [i \in 0..20 |-> IF i = 0 THEN 50 ELSE -2 * i] }

\* The hand with the same x and y and the depths of the profile.
withDepth(hand, depth) ==
    [i \in 0..20 |-> HandLandmark(hand[i].x, hand[i].y, depth[i])]

\* The hands delivered to the running scene: a pinch, a V sign, a fist and
\* an open hand.
SceneHands ==
    { MakeHand(<<4, 0>>, 10, 30, 10, 10),
      MakeHand(<<9, 12>>, 40, 40, 10, 10),
      MakeHand(<<6, 8>>, 15, 15, 15, 15),
      MakeHand(<<18, 24>>, 50, 50, 50, 50) }

\* The detection results delivered to the running scene.
SceneResults ==
    {NoLandmarks, Landmarks(<<>>)} \cup {Landmarks(<<h>>) : h \in SceneHands}

\* The detection results the classifier is run on.
ClassifierInputs ==
    {NoLandmarks, Landmarks(<<>>)} \cup {Landmarks(<<h>>) : h \in Hands}

\* ------------------------------------------------------------ scene geometry

\* randomInSphere(30): points of the ball of radius 30.
SpherePoints == {<<0, 0, 20>>, <<0, 0, 25>>}
\* randomInHeart(0.6): points of the heart volume at scale 0.6.
HeartPoints == {<<0, 3, 2>>, <<0, -5, -2>>}

\* The target pairs a photo can be given.
TargetPairs ==
    [dispersed : SpherePoints, formed : HeartPoints]
        \ {[dispersed |-> <<0, 0, 25>>, formed |-> <<0, 3, 2>>]}

\* The inner group's rotation.y, in quarter turns.
QuarterTurns == 0..3

\* worldPos.applyMatrix4(innerGroupRef.current.matrixWorld): the rotation of
\* the inner group about the y axis by rotY quarter turns.
applyMatrix4(p, rotY) ==
    CASE rotY = 0 -> p
      [] rotY = 1 -> <<p[3], p[2], -p[1]>>
      [] rotY = 2 -> <<-p[1], p[2], -p[3]>>
      [] rotY = 3 -> <<-p[3], p[2], p[1]>>

\* Vector3.distanceTo, in hundredths of a scene unit.
distanceTo(a, b) ==
    Sqrt(10000 * ( (a[1] - b[1]) * (a[1] - b[1])
                 + (a[2] - b[2]) * (a[2] - b[2])
                 + (a[3] - b[3]) * (a[3] - b[3]) ))

\* The camera anchor of the focus scoring.
cameraPos == <<0, 0, 30>>

\* -------------------------------------------------------------------- state

VARIABLES
    gestureState,   \* App: the gesture state, as last set and rendered
    handPosRef,     \* App: handPosRef.current
    images,         \* App: the photo list
    landmarks,      \* VisionController: result.landmarks of the last detection
    newState,       \* VisionController: the value detectGesture returned
    positions,      \* PhotoGallery: the memoised target pairs, one per image
    activeIndex,    \* PhotoGallery: the selected photo (0-based)
    viewCounts,     \* PhotoGallery: photo index -> number of selections
    previousState,  \* PhotoGallery: previousState.current
    effectPending,  \* PhotoGallery: the focus-selection effect is due to run
    innerRotY,      \* PhotoGallery: innerGroupRef.current.rotation.y
    cycleCount,     \* App: the number of heart formations
    prevGestureRef, \* App: prevGestureRef.current
    vision,         \* VisionController: how far initMediaPipe/startCamera got
    time,           \* the frame clock: state.clock.getElapsedTime(), in frames
    scene,          \* the animated values of photo 0, one particle and the groups
    particle,       \* HeartParticles: index and targets of the particle
    frame           \* the frame in progress: the callback due, the anchors read

vars ==
    <<gestureState, handPosRef, images, landmarks, newState, positions,
      activeIndex, viewCounts, previousState, effectPending, innerRotY,
      cycleCount, prevGestureRef, vision, time, scene, particle, frame>>

\* The variables only an animation frame writes.
animation == <<time, scene, particle, frame>>

\* viewCounts[idx] || 0
countOf(counts, idx) == IF idx \in DOMAIN counts THEN counts[idx] ELSE 0

RECURSIVE sumCounts(_, _)
\* The number of selections recorded in counts for the indices below n.
sumCounts(counts, n) ==
    IF n = 0 THEN 0 ELSE countOf(counts, n - 1) + sumCounts(counts, n - 1)

\* ------------------------------------------------------------------ App

\* handleGestureChange that holds FOCUSED until a hand shows another gesture.
handleGestureChangeHold(state) ==
    IF gestureState = FOCUSED /\ state = DISPERSED THEN gestureState ELSE state

\* handleGestureChange: setGestureState(state).
handleGestureChange(state) == state

\* isActive / wasActive of the cycle effect.
isFormedOrRotating(state) == state = FORMED \/ state = ROTATING

\* The cycle effect that counts every change of the gesture state while the
\* heart is formed.
cycleIncrementAnyChange == IF isFormedOrRotating(gestureState) THEN 1 ELSE 0

\* What the cycle effect adds to cycleCount: 1 when the heart has just been
\* formed.
cycleIncrement ==
    IF isFormedOrRotating(gestureState) /\ ~isFormedOrRotating(prevGestureRef)
    THEN 1 ELSE 0

\* const showPhotos = cycleCount >= 2
showPhotos == cycleCount >= 2

\* handleHandMove: the wrist mapped into the scene.
handleHandMove(x, y) == <<(50 - x) * 25 * 2, (50 - y) * 15 * 2, 0>>

\* ------------------------------------------------------- VisionController

\* The pose loop started although the camera was refused.
poseLoopStartedAnyCamera == vision = "running" \/ vision = "cameraError"

\* predictWebcam runs: the model is loaded and the loadeddata listener was
\* attached after the camera stream was acquired.
poseLoopStarted == vision = "running"

\* Whether the detection found a hand.
handFound(result) == result.defined /\ Len(result.hands) > 0

\* publishedState that publishes nothing new when no hand is found.
publishedStateKeep(result) ==
    IF handFound(result) THEN detectGesture(result) ELSE gestureState

\* The state predictWebcam passes to onGestureChange.
publishedState(result) ==
    IF handFound(result) THEN detectGesture(result) ELSE DISPERSED

\* The anchor predictWebcam passes on through onHandMove.
publishedAnchor(result) ==
    IF handFound(result)
    THEN handleHandMove(result.hands[1][0].x, result.hands[1][0].y)
    ELSE handleHandMove(50, 50)

\* ------------------------------------------------------------ PhotoGallery

\* The positions the selection scores: those of the state before the focus.
\* sourceLocalPositions that takes the dispersed targets whatever the
\* previous state.
sourceLocalPositionsDispersed ==
    [i \in 1..Len(positions) |-> positions[i].dispersed]

sourceLocalPositions ==
    IF previousState = FORMED \/ previousState = ROTATING
    THEN [i \in 1..Len(positions) |-> positions[i].formed]
    ELSE [i \in 1..Len(positions) |-> positions[i].dispersed]

\* The distance of entry idx to the camera, through the inner group's
\* world matrix.
worldDistance(idx) ==
    distanceTo(applyMatrix4(sourceLocalPositions[idx + 1], innerRotY), cameraPos)

\* score with a penalty of 1 per view.
scoreSmallPenalty(idx) == worldDistance(idx) + countOf(viewCounts, idx) * 100

\* score = distance + count * 500
score(idx) == worldDistance(idx) + countOf(viewCounts, idx) * 50000

\* minScore: Infinity before the first entry.
Infinity == [finite |-> FALSE, value |-> 0]

\* lessThan that also takes an equal score.
lessOrEqual(s, minScore) == ~minScore.finite \/ s <= minScore.value

\* score < minScore
lessThan(s, minScore) == ~minScore.finite \/ s < minScore.value

RECURSIVE forEachScore(_, _, _)
\* The forEach over the entries from idx on: the best index found.
forEachScore(idx, minScore, bestIndex) ==
    IF idx >= Len(positions) THEN bestIndex
    ELSE IF lessThan(score(idx), minScore)
         THEN forEachScore(idx + 1, [finite |-> TRUE, value |-> score(idx)], idx)
         ELSE forEachScore(idx + 1, minScore, bestIndex)

\* selectBestIndex that counts the photos from 1.
selectBestIndexOneBased == forEachScore(0, Infinity, 0) + 1

selectBestIndex == forEachScore(0, Infinity, 0)

\* shouldSelect without the test for an empty gallery.
shouldSelectEmpty == gestureState = FOCUSED /\ previousState # FOCUSED

\* shouldSelect without the comparison with the previous state.
shouldSelectLevel == gestureState = FOCUSED /\ Len(images) > 0

\* The guard of the selection: the state turned FOCUSED and there are photos
\* (innerGroupRef.current is set once the gallery is mounted).
shouldSelect ==
    /\ gestureState = FOCUSED /\ previousState # FOCUSED
    /\ Len(images) > 0

\* incrementViewCount without the spread of the previous counts.
incrementViewCountOnly(prev, bestIndex) ==
    [k \in {bestIndex} |-> countOf(prev, bestIndex) + 1]

\* setViewCounts(prev => ({...prev, [bestIndex]: (prev[bestIndex] || 0) + 1}))
incrementViewCount(prev, bestIndex) ==
    [k \in DOMAIN prev \cup {bestIndex} |->
        IF k = bestIndex THEN countOf(prev, bestIndex) + 1 ELSE prev[k]]

\* ---------------------------------------------------------------- animation

\* Lengths of the animation are in ten-thousandths of a scene unit.
Fine == 10000

\* A scene point in ten-thousandths.
toFine(p) == <<p[1] * Fine, p[2] * Fine, p[3] * Fine>>

\* The frame period: 64 frames take 2 * PI seconds.
FramesPerTurn == 64

\* n / d rounded towards zero.
truncDiv(n, d) == IF n >= 0 THEN n \div d ELSE -((-n) \div d)

\* lerp that leaves the value where it is.
lerpNone(a, b, alpha) == a

\* THREE.MathUtils.lerp(a, b, alpha), alpha in hundredths.
lerp(a, b, alpha) == a + truncDiv((b - a) * alpha, 100)

\* Vector3.lerp(q, alpha)
lerpVector(p, q, alpha) ==
    <<lerp(p[1], q[1], alpha), lerp(p[2], q[2], alpha), lerp(p[3], q[3], alpha)>>

\* 10000 * sin(2 * PI * k / 64) for k = 0..16.
sinQuarter ==
    <<0, 980, 1951, 2903, 3827, 4714, 5556, 6344, 7071,
      7730, 8315, 8819, 9239, 9569, 9808, 9952, 10000>>

\* Math.sin of k 64ths of a turn, in ten-thousandths.
sin64(k) ==
    LET m == k % 64 IN
    IF m <= 16 THEN sinQuarter[m + 1]
    ELSE IF m <= 32 THEN sinQuarter[33 - m]
    ELSE IF m <= 48 THEN -sinQuarter[m - 31]
    ELSE -sinQuarter[65 - m]

\* An angle of x ten-thousandths of a radian, in 64ths of a turn.
radians64(x) == (x * FramesPerTurn) \div 62832

\* Object3D.localToWorld of the inner group: its rotation about y, then the
\* position of the outer group (the tilt of the outer group is left out).
localToWorld(p, groupPos, rotY) ==
    LET q == applyMatrix4(p, rotY) IN
    <<q[1] + groupPos[1], q[2] + groupPos[2], q[3] + groupPos[3]>>

\* worldToLocal that takes the parent as unrotated.
worldToLocalUnrotated(p, groupPos, rotY) ==
    <<p[1] - groupPos[1], p[2] - groupPos[2], p[3] - groupPos[3]>>

\* parentGroup.worldToLocal(p): the inverse of the inner group's world
\* transform.
worldToLocal(p, groupPos, rotY) ==
    applyMatrix4(<<p[1] - groupPos[1], p[2] - groupPos[2], p[3] - groupPos[3]>>,
                 (4 - rotY) % 4)

\* targetWorldPos of a focused photo.
targetWorldPos == toFine(<<0, 0, 20>>)

\* dest of PhotoFrame's frame callback at frame t, for a photo at x.
photoDest(targetPos, focused, state, groupPos, rotY, t, x) ==
    IF focused
    THEN worldToLocal(targetWorldPos, groupPos, rotY)
    ELSE IF state = FOCUSED
         THEN <<targetPos[1], targetPos[2], targetPos[3] - 40 * Fine>>
         ELSE IF state = FORMED \/ state = ROTATING
              THEN targetPos
              ELSE <<targetPos[1],
                     targetPos[2] + 2 * sin64(t + radians64(x)),
                     targetPos[3]>>

\* targetScale of PhotoFrame's frame callback.
targetScale(focused, state) ==
    IF focused THEN 8 * Fine
    ELSE IF state = FOCUSED THEN Fine \div 2
         ELSE IF state = FORMED \/ state = ROTATING THEN (12 * Fine) \div 10
              ELSE 3 * Fine

\* meshRef.current.scale.y after the guarded update.
nextScale(currentScale, focused, state) ==
    LET next == lerp(currentScale, targetScale(focused, state), 8) IN
    IF next > Fine \div 1000 THEN next ELSE currentScale

\* A JavaScript number that may be NaN; value is in hundredths for a ratio and
\* in ten-thousandths for a length.
Number(v) == [nan |-> FALSE, value |-> v]
NaN == [nan |-> TRUE, value |-> 0]

\* The pixel sizes of the loaded images, as <<width, height>>; an image
\* without intrinsic dimensions has width and height 0.
ImageSizes == {<<4, 3>>, <<3, 4>>, <<0, 0>>}

\* tex.image.width / tex.image.height, in hundredths (0 / 0 is NaN).
aspectOf(size) ==
    IF size[2] = 0 THEN NaN ELSE Number((size[1] * 100) \div size[2])

\* meshRef.current.scale.x after the guarded update: nextScale * aspect.
nextScaleX(currentScaleX, currentScale, focused, state, aspect) ==
    LET next == lerp(currentScale, targetScale(focused, state), 8) IN
    IF next > Fine \div 1000
    THEN IF aspect.nan THEN NaN ELSE Number(truncDiv(next * aspect.value, 100))
    ELSE currentScaleX

\* targetOpacity that does not look at the visibility flag.
targetOpacityShown(visible, state, focused) ==
    IF state = FOCUSED /\ ~focused THEN Fine \div 10 ELSE (9 * Fine) \div 10

\* targetOpacity of PhotoFrame's frame callback.
targetOpacity(visible, state, focused) ==
    IF ~visible THEN 0
    ELSE IF state = FOCUSED /\ ~focused THEN Fine \div 10
         ELSE (9 * Fine) \div 10

\* groupTarget that only takes the origin for FORMED.
groupTargetFormedOnly(state, hand) ==
    IF state = FORMED
    THEN <<0, 0, 0>>
    ELSE <<hand[1] * 100, hand[2] * 100, hand[3] * 100>>

\* targetPos of the groups: the origin while the heart is formed, the hand
\* anchor otherwise.
groupTarget(state, hand) ==
    IF isFormedOrRotating(state)
    THEN <<0, 0, 0>>
    ELSE <<hand[1] * 100, hand[2] * 100, hand[3] * 100>>

\* innerGroupRef.current.rotation.y after a frame, in whole quarter turns:
\* the spin of 2 rad/s completes one every 8 frames, the drift of 0.1 rad/s
\* every 160 frames, and the sway of FORMED stays below one.
innerRotation(state, rotY, t) ==
    IF state = ROTATING
    THEN IF (t + 1) % (FramesPerTurn \div 8) = 0 THEN (rotY + 1) % 4 ELSE rotY
    ELSE IF state = FORMED
         THEN rotY
         ELSE IF (t + 1) % ((FramesPerTurn * 10) \div 4) = 0
              THEN (rotY + 1) % 4 ELSE rotY

\* targetBuffer of HeartParticles for the particle p.
particleTarget(state, p) ==
    IF isFormedOrRotating(state) \/ state = FOCUSED THEN p.heart ELSE p.dispersed

\* noise = Math.sin(time * 2 + i) * 0.1
noise(t, i) == truncDiv(sin64(2 * t + radians64(i * Fine)), 10)

\* The photos' initial positions: points of the cube of side 50.
PhotoStarts == {<<240000, -240000, 240000>>, <<-100000, 50000, 0>>}

\* The particles: index, heart target and dispersed target (randomInHeart(0.6)
\* and randomInSphere(40)).
Particles ==
    { [index |-> 0, heart |-> toFine(<<0, 3, 2>>),
       dispersed |-> toFine(<<0, 30, -20>>)],
      [index |-> 1, heart |-> toFine(<<0, -5, -2>>),
       dispersed |-> toFine(<<-30, 0, 10>>)] }

\* targetPos that keeps the formed target while the state is FOCUSED.
targetPosHeldInFocus(i) ==
    toFine(IF isFormedOrRotating(gestureState) \/ gestureState = FOCUSED
           THEN positions[i + 1].formed ELSE positions[i + 1].dispersed)

\* targetPos of the rendered photo i.
targetPos(i) ==
    toFine(IF isFormedOrRotating(gestureState)
           THEN positions[i + 1].formed ELSE positions[i + 1].dispersed)

\* isFocused of the rendered photo i:
\* gestureState === GestureState.FOCUSED && i === activeIndex
isFocused(i) == gestureState = FOCUSED /\ i = activeIndex

\* The animated values before the first frame: photo 0 at its initial
\* position with scale 1, aspect 1 and opacity 0, its texture not loaded yet,
\* the particle at its dispersed target, the groups at the origin.
SceneStart(start, p) ==
    [ photoPos |-> start,
      photoScale |-> Fine,
      photoScaleX |-> Number(Fine),
      aspect |-> Number(100),
      textureLoaded |-> FALSE,
      photoOpacity |-> 0,
      dest |-> start,
      targetOpacity |-> 0,
      galleryPos |-> <<0, 0, 0>>,
      particlesPos |-> <<0, 0, 0>>,
      particlePos |-> p.dispersed,
      particlesOpacity |-> Fine ]

\* The frame bookkeeping before the first frame: no callback is due, no
\* anchor has been read, no group target computed.
FrameStart ==
    [ pc |-> "idle",
      began |-> <<0, 0, 0>>,
      particlesRead |-> <<0, 0, 0>>,
      galleryRead |-> <<0, 0, 0>>,
      particlesTarget |-> <<0, 0, 0>>,
      galleryTarget |-> <<0, 0, 0>> ]

\* The frame callback of HeartParticles on the animated values s: the group
\* moves towards its target, the particle towards its own, the material
\* towards its opacity.
particlesFrame(s) ==
    LET target == particleTarget(gestureState, particle) IN
    [ s EXCEPT
        !.particlesPos =
            lerpVector(s.particlesPos, groupTarget(gestureState, handPosRef), 10),
        !.particlePos =
            <<lerp(s.particlePos[1], target[1], 5),
              lerp(s.particlePos[2], target[2] + noise(time, particle.index), 5),
              lerp(s.particlePos[3], target[3], 5)>>,
        !.particlesOpacity =
            lerp(s.particlesOpacity,
                 IF gestureState = FOCUSED THEN Fine \div 5 ELSE Fine, 10) ]

\* The frame callbacks of PhotoFrame (photo 0) and PhotoGallery on the
\* animated values s.
galleryFrame(s) ==
    LET dest == photoDest(targetPos(0), isFocused(0), gestureState,
                          s.galleryPos, innerRotY, time, s.photoPos[1])
        opacity == targetOpacity(showPhotos, gestureState, isFocused(0))
    IN  [ s EXCEPT
            !.photoPos = lerpVector(s.photoPos, dest, 8),
            !.photoScale = nextScale(s.photoScale, isFocused(0), gestureState),
            !.photoScaleX =
                nextScaleX(s.photoScaleX, s.photoScale, isFocused(0),
                           gestureState, s.aspect),
            !.photoOpacity = lerp(s.photoOpacity, opacity, 8),
            !.dest = dest,
            !.targetOpacity = opacity,
            !.galleryPos =
                lerpVector(s.galleryPos, groupTarget(gestureState, handPosRef),
                           10) ]

\* A handler that reads as betweenFrames but may run between two callbacks
\* of one frame.
betweenFramesAny == TRUE

\* No frame is in progress: a detection, an effect or a load callback is a
\* task of its own and starts only when the frame callbacks have returned.
betweenFrames == frame.pc = "idle"

\* ------------------------------------------------------------------ actions

Init ==
    /\ gestureState = DISPERSED
    /\ handPosRef = <<0, 0, 0>>
    /\ images = <<>>
    /\ landmarks = NoLandmarks
    /\ newState = "NONE"
    /\ positions = <<>>
    /\ activeIndex = 0
    /\ viewCounts = [k \in {} |-> 0]
    /\ previousState = DISPERSED
    /\ effectPending = FALSE
    /\ innerRotY = 0
    /\ cycleCount = 0
    /\ prevGestureRef = DISPERSED
    /\ vision = "initMediaPipe"
    /\ time = 0
    /\ particle = CHOOSE p \in Particles : p.index = 0
    /\ scene = SceneStart(<<240000, -240000, 240000>>, particle)
    /\ frame = FrameStart

\* initMediaPipe up to startCamera: the model loads (ok), or the try block
\* catches the failure and logs it.
InitMediaPipe(ok) ==
    /\ vision = "initMediaPipe"
    /\ vision' = IF ok THEN "startCamera" ELSE "initError"
    /\ UNCHANGED <<gestureState, handPosRef, images, landmarks, newState,
                   positions, activeIndex, viewCounts, previousState,
                   effectPending, innerRotY, cycleCount, prevGestureRef>>
    /\ UNCHANGED animation

\* startCamera: the stream is acquired and predictWebcam attached (ok), or
\* the try block catches the failure and logs it.
StartCamera(ok) ==
    /\ vision = "startCamera"
    /\ vision' = IF ok THEN "running" ELSE "cameraError"
    /\ UNCHANGED <<gestureState, handPosRef, images, landmarks, newState,
                   positions, activeIndex, viewCounts, previousState,
                   effectPending, innerRotY, cycleCount, prevGestureRef>>
    /\ UNCHANGED animation

\* One detection cycle of predictWebcam on a ready video frame: the state and
\* the anchor are published, and App re-renders when the state changed.
PredictWebcam(result) ==
    /\ poseLoopStarted
    /\ betweenFrames
    /\ ~effectPending
    /\ (publishedState(result) = FOCUSED /\ gestureState # FOCUSED)
          => sumCounts(viewCounts, Len(images)) < MaxSelections
    /\ ( /\ isFormedOrRotating(publishedState(result))
         /\ ~isFormedOrRotating(gestureState) )
          => cycleCount < MaxCycles
    /\ landmarks' = result
    /\ gestureState' = handleGestureChange(publishedState(result))
    /\ handPosRef' = publishedAnchor(result)
    /\ effectPending' = (gestureState' # gestureState)
    /\ UNCHANGED <<images, newState, positions, activeIndex, viewCounts,
                   previousState, innerRotY, cycleCount, prevGestureRef,
                   vision>>
    /\ UNCHANGED animation

\* handleFileUpload with k files: the images are appended, and the render
\* recomputes the positions memo for the new images array.
HandleFileUpload(k, newPositions) ==
    /\ ~effectPending
    /\ betweenFrames
    /\ k >= 1
    /\ Len(images) + k <= MaxPhotos
    /\ images' = images \o [i \in 1..k |-> Len(images) + i]
    /\ newPositions \in [1..(Len(images) + k) -> TargetPairs]
    /\ positions' = newPositions
    /\ effectPending' = TRUE
    /\ UNCHANGED <<gestureState, handPosRef, landmarks, newState, activeIndex,
                   viewCounts, previousState, innerRotY, cycleCount,
                   prevGestureRef, vision>>
    /\ UNCHANGED animation

\* The passive effects of a render: the focus-selection effect of
\* PhotoGallery, due after a render that changed one of its dependencies, and
\* with it the cycle effect of App when the gesture state is one it has not
\* seen yet (its only dependency).
RunEffect ==
    /\ effectPending
    /\ betweenFrames
    /\ IF shouldSelect
       THEN /\ activeIndex' = selectBestIndex
            /\ viewCounts' = incrementViewCount(viewCounts, selectBestIndex)
            /\ effectPending' = TRUE
       ELSE /\ UNCHANGED <<activeIndex, viewCounts>>
            /\ effectPending' = FALSE
    /\ previousState' = gestureState
    /\ IF prevGestureRef # gestureState
       THEN /\ cycleCount' = cycleCount + cycleIncrement
            /\ prevGestureRef' = gestureState
       ELSE UNCHANGED <<cycleCount, prevGestureRef>>
    /\ UNCHANGED <<gestureState, handPosRef, images, landmarks, newState,
                   positions, innerRotY, vision>>
    /\ UNCHANGED animation

\* One animation tick of the gallery: the inner group turns; rotY is the
\* quarter turn its rotation.y comes to.
Tick(rotY) ==
    /\ innerRotY' = rotY
    /\ UNCHANGED <<gestureState, handPosRef, images, landmarks, newState,
                   positions, activeIndex, viewCounts, previousState,
                   effectPending, cycleCount, prevGestureRef, vision>>
    /\ UNCHANGED animation

Next ==
    \/ \E ok \in BOOLEAN : InitMediaPipe(ok)
    \/ \E ok \in BOOLEAN : StartCamera(ok)
    \/ \E result \in SceneResults : PredictWebcam(result)
    \/ \E k \in 1..(MaxPhotos - Len(images)) :
          \E newPositions \in [1..(Len(images) + k) -> TargetPairs] :
             HandleFileUpload(k, newPositions)
    \/ RunEffect
    \/ \E rotY \in QuarterTurns : Tick(rotY)

Spec == Init /\ [][Next]_vars

\* ---------------------------------------------------- the animation frames

\* A mounted scene at rest in one gesture state: two photos, the gesture state
\* and anchor of one detection result, the selection of the episode when the
\* state is FOCUSED, photo 0 and the particle where they start.
FrameInit ==
    /\ landmarks \in SceneResults
    /\ gestureState = publishedState(landmarks)
    /\ handPosRef = publishedAnchor(landmarks)
    /\ newState = "NONE"
    /\ images = <<1, 2>>
    /\ positions \in
          { p \in [1..2 -> TargetPairs] :
              /\ p[2] = [dispersed |-> <<0, 0, 20>>, formed |-> <<0, -5, -2>>]
              /\ p[1] # p[2] }
    /\ activeIndex \in (IF gestureState = FOCUSED THEN {0, 1} ELSE {0})
    /\ viewCounts = IF gestureState = FOCUSED
                    THEN [k \in {activeIndex} |-> 1]
                    ELSE [k \in {} |-> 0]
    /\ previousState = gestureState
    /\ effectPending = FALSE
    /\ innerRotY \in (IF gestureState = FOCUSED THEN QuarterTurns ELSE {0})
    /\ cycleCount \in {1, 2}
    /\ prevGestureRef = gestureState
    /\ vision = "running"
    /\ time = 0
    /\ particle \in Particles
    /\ scene \in {SceneStart(start, particle) : start \in PhotoStarts}
    /\ frame = FrameStart

\* One animation frame as a whole: the frame callbacks of HeartParticles,
\* PhotoFrame (photo 0) and PhotoGallery.
AnimationFrame ==
    /\ time < MaxTicks
    /\ time' = time + 1
    /\ scene' = galleryFrame(particlesFrame(scene))
    /\ frame' = [ pc |-> "idle", began |-> handPosRef,
                  particlesRead |-> handPosRef, galleryRead |-> handPosRef,
                  particlesTarget |-> groupTarget(gestureState, handPosRef),
                  galleryTarget |-> groupTarget(gestureState, handPosRef) ]
    /\ innerRotY' = innerRotation(gestureState, innerRotY, time)
    /\ UNCHANGED <<gestureState, handPosRef, images, landmarks, newState,
                   positions, activeIndex, viewCounts, previousState,
                   effectPending, cycleCount, prevGestureRef, vision,
                   particle>>

FrameNext == AnimationFrame

FrameSpec == FrameInit /\ [][FrameNext]_vars

\* ------------------------------- detections, effects and frames interleaved

\* A mounted scene before the first detection: two photos restored at mount,
\* no hand seen yet, nothing selected, the pose loop running.
LoopInit ==
    /\ gestureState = DISPERSED
    /\ handPosRef = <<0, 0, 0>>
    /\ images = <<1, 2>>
    /\ landmarks = NoLandmarks
    /\ newState = "NONE"
    /\ positions = <<[dispersed |-> <<0, 0, 25>>, formed |-> <<0, -5, -2>>],
                     [dispersed |-> <<0, 0, 20>>, formed |-> <<0, 3, 2>>]>>
    /\ activeIndex = 0
    /\ viewCounts = [k \in {} |-> 0]
    /\ previousState = DISPERSED
    /\ effectPending = FALSE
    /\ innerRotY = 0
    /\ cycleCount = 0
    /\ prevGestureRef = DISPERSED
    /\ vision = "running"
    /\ time = 0
    /\ particle = CHOOSE p \in Particles : p.index = 1
    /\ scene = SceneStart(<<-100000, 50000, 0>>, particle)
    /\ frame = FrameStart

\* The first callback of a frame: that of HeartParticles, which reads the
\* anchor for its group.
FrameParticles ==
    /\ frame.pc = "idle"
    /\ time < MaxFrames
    /\ scene' = particlesFrame(scene)
    /\ frame' = [ frame EXCEPT
                    !.pc = "gallery", !.began = handPosRef,
                    !.particlesRead = handPosRef,
                    !.particlesTarget = groupTarget(gestureState, handPosRef) ]
    /\ UNCHANGED <<gestureState, handPosRef, images, landmarks, newState,
                   positions, activeIndex, viewCounts, previousState,
                   effectPending, innerRotY, cycleCount, prevGestureRef,
                   vision, time, particle>>

\* The other callbacks of the frame: those of PhotoFrame (photo 0) and of
\* PhotoGallery, which reads the anchor for the outer group; the frame ends.
FrameGallery ==
    /\ frame.pc = "gallery"
    /\ scene' = galleryFrame(scene)
    /\ innerRotY' = innerRotation(gestureState, innerRotY, time)
    /\ time' = time + 1
    /\ frame' = [ frame EXCEPT
                    !.pc = "idle", !.galleryRead = handPosRef,
                    !.galleryTarget = groupTarget(gestureState, handPosRef) ]
    /\ UNCHANGED <<gestureState, handPosRef, images, landmarks, newState,
                   positions, activeIndex, viewCounts, previousState,
                   effectPending, cycleCount, prevGestureRef, vision,
                   particle>>

LoopNext ==
    \/ \E result \in SceneResults : PredictWebcam(result)
    \/ RunEffect
    \/ FrameParticles
    \/ FrameGallery

LoopSpec == LoopInit /\ [][LoopNext]_vars

\* ------------------------------------- a texture loading while frames run

\* The load callback of photo 0's texture: setAspect(width / height).
TextureLoaded(size) ==
    /\ betweenFrames
    /\ ~scene.textureLoaded
    /\ scene' = [scene EXCEPT !.aspect = aspectOf(size), !.textureLoaded = TRUE]
    /\ UNCHANGED <<gestureState, handPosRef, images, landmarks, newState,
                   positions, activeIndex, viewCounts, previousState,
                   effectPending, innerRotY, cycleCount, prevGestureRef,
                   vision, time, particle, frame>>

TextureNext ==
    \/ \E size \in ImageSizes : TextureLoaded(size)
    \/ AnimationFrame

\* The mounted scene before the first detection, its frames, and the
\* texture of photo 0 arriving between two of them.
TextureSpec == LoopInit /\ [][TextureNext]_vars

\* --------------------------------------------- the classifier on its own

ClassifyInit ==
    /\ landmarks \in ClassifierInputs
    /\ newState = "NONE"
    /\ gestureState = DISPERSED
    /\ handPosRef = <<0, 0, 0>>
    /\ images = <<>>
    /\ positions = <<>>
    /\ activeIndex = 0
    /\ viewCounts = [k \in {} |-> 0]
    /\ previousState = DISPERSED
    /\ effectPending = FALSE
    /\ innerRotY = 0
    /\ cycleCount = 0
    /\ prevGestureRef = DISPERSED
    /\ vision = "running"
    /\ time = 0
    /\ particle = CHOOSE p \in Particles : p.index = 0
    /\ scene = SceneStart(<<240000, -240000, 240000>>, particle)
    /\ frame = FrameStart

\* const newState = detectGesture(result.landmarks)
Classify ==
    /\ newState = "NONE"
    /\ newState' = detectGesture(landmarks)
    /\ UNCHANGED <<gestureState, handPosRef, images, landmarks, positions,
                   activeIndex, viewCounts, previousState, effectPending,
                   innerRotY, cycleCount, prevGestureRef, vision>>
    /\ UNCHANGED animation

ClassifyNext == Classify

ClassifySpec == ClassifyInit /\ [][ClassifyNext]_vars

\* ------------------------------------------------------------- properties

\* The four extension distances of a hand, added up (their average times 4).
extensionSum(hand) ==
    indexDist(hand) + middleDist(hand) + ringDist(hand) + pinkyDist(hand)

\* The numeric conditions of the three rules of the cascade.
focusedRule(hand) ==
    pinchDist(hand) < 6 /\ (middleDist(hand) > 20 \/ ringDist(hand) > 20)
rotatingRule(hand) ==
    /\ indexDist(hand) > 35 /\ middleDist(hand) > 35
    /\ ringDist(hand) < 25 /\ pinkyDist(hand) < 25
    /\ pinchDist(hand) > 10
formedRule(hand) == extensionSum(hand) < 100

\* The classifier has been run on a list that holds a hand.
classifiedHand == newState # "NONE" /\ landmarks.defined /\ landmarks.hands # <<>>

\* C1: whenever the last detection gave no landmark list or an empty one, the
\* published gesture state is DISPERSED, and so is what detectGesture returns
\* for that list.
C1_AbsentYieldsDispersed ==
    (~landmarks.defined \/ landmarks.hands = <<>>)
        => /\ gestureState = DISPERSED
           /\ detectGesture(landmarks) = DISPERSED

\* A detection with an empty landmark list has just replaced a published
\* FOCUSED by DISPERSED.
C1_Witness ==
    /\ landmarks = Landmarks(<<>>)
    /\ gestureState = DISPERSED
    /\ previousState = FOCUSED
    /\ effectPending

\* C2: for a present pose detectGesture returns one of the four states, and
\* returns each exactly when its rule holds and no earlier rule of the
\* cascade does; it never returns LOADING.
C2_CascadeOrder ==
    classifiedHand =>
        LET hand == landmarks.hands[1] IN
        /\ newState \in {FOCUSED, ROTATING, FORMED, DISPERSED}
        /\ newState # LOADING
        /\ (newState = FOCUSED) = focusedRule(hand)
        /\ (newState = ROTATING) = (~focusedRule(hand) /\ rotatingRule(hand))
        /\ (newState = FORMED) =
              (~focusedRule(hand) /\ ~rotatingRule(hand) /\ formedRule(hand))
        /\ (newState = DISPERSED) =
              (~focusedRule(hand) /\ ~rotatingRule(hand) /\ ~formedRule(hand))

\* A hand that meets the FOCUSED rule and the FORMED rule has been classified
\* FOCUSED: the first match won.
C2_Witness ==
    /\ classifiedHand
    /\ focusedRule(landmarks.hands[1])
    /\ formedRule(landmarks.hands[1])
    /\ newState = FOCUSED

\* The number of selections recorded so far.
selections == sumCounts(viewCounts, Len(images))

\* C3: the effect selects exactly on an edge into FOCUSED.  Whenever the
\* gesture state changes, the effect is due and previousState still holds the
\* state that was left; a step changes activeIndex or the view counts only if
\* it is the effect consuming an edge into FOCUSED with a non-empty gallery,
\* and then it records exactly one selection; and every run of the effect on
\* such an edge records one.  A run of the effect while the state stays
\* FOCUSED (previousState = FOCUSED) therefore selects nothing.
C3_EdgeTriggered ==
    [][ /\ (gestureState' # gestureState)
            => (previousState = gestureState /\ effectPending')
        /\ (viewCounts' # viewCounts \/ activeIndex' # activeIndex)
            => /\ effectPending
               /\ gestureState = FOCUSED /\ previousState # FOCUSED
               /\ previousState' = FOCUSED
               /\ Len(images) > 0
               /\ selections' = selections + 1
        /\ ( /\ effectPending /\ previousState' # previousState
             /\ gestureState = FOCUSED /\ previousState # FOCUSED
             /\ Len(images) > 0 )
            => selections' = selections + 1
      ]_vars

\* A FOCUSED episode with two photos in which the effect has run again and
\* one selection stands.
C3_Witness ==
    /\ gestureState = FOCUSED /\ previousState = FOCUSED
    /\ ~effectPending
    /\ Len(images) = 2
    /\ selections = 1

\* C4: the index a selection chooses has the least score
\* worldDistance + 500 * viewCount of all entries, and is the lowest index
\* among those with the least score.
C4_ArgminSelection ==
    [][ (viewCounts' # viewCounts) =>
          LET cost(i) == worldDistance(i) + 50000 * countOf(viewCounts, i) IN
          /\ activeIndex' \in 0..(Len(images) - 1)
          /\ \A j \in 0..(Len(images) - 1) :
                /\ cost(activeIndex') <= cost(j)
                /\ (cost(j) = cost(activeIndex')) => (activeIndex' <= j)
      ]_vars

\* A selection has just chosen entry 0 although entry 1 is nearer to the
\* camera: entry 1 had been viewed once and entry 0 never.
C4_Witness ==
    /\ gestureState = FOCUSED /\ previousState = FOCUSED /\ effectPending
    /\ Len(images) = 2
    /\ innerRotY = 0
    /\ positions[1].dispersed = <<0, 0, 20>>
    /\ positions[2].dispersed = <<0, 0, 25>>
    /\ activeIndex = 0
    /\ countOf(viewCounts, 0) = 1 /\ countOf(viewCounts, 1) = 1

\* C5: no step changes the target pair of a photo that already exists.
C5_TargetsImmutable ==
    [][ \A i \in 1..Len(positions) :
           i <= Len(positions') /\ positions'[i] = positions[i] ]_vars

\* C6: a step that changes the view counts is a selection run of the effect;
\* it adds exactly 1 to the count of the index it selects and leaves every
\* other count as it was; and no step lowers a count.
C6_ViewCountFrame ==
    [][ /\ (viewCounts' # viewCounts)
            => /\ effectPending /\ gestureState = FOCUSED
               /\ UNCHANGED <<gestureState, images, positions, innerRotY,
                              landmarks, handPosRef>>
               /\ countOf(viewCounts', activeIndex')
                     = countOf(viewCounts, activeIndex') + 1
               /\ \A j \in 0..MaxPhotos :
                     j # activeIndex'
                        => countOf(viewCounts', j) = countOf(viewCounts, j)
        /\ \A j \in 0..MaxPhotos :
              countOf(viewCounts', j) >= countOf(viewCounts, j)
      ]_vars

\* Entry 0 has been selected twice and entry 1 once.
C6_Witness ==
    /\ countOf(viewCounts, 0) = 2
    /\ countOf(viewCounts, 1) = 1

\* C7: the published gesture state is the classification of the pose of the
\* last delivery, whatever was published before.
C7_OverwriteEachFrame == gestureState = detectGesture(landmarks)

\* ROTATING has been published directly after FOCUSED: previousState still
\* holds the FOCUSED the effect last saw.
C7_Witness ==
    /\ gestureState = ROTATING
    /\ previousState = FOCUSED
    /\ effectPending
    /\ landmarks.defined /\ landmarks.hands # <<>>

\* C9 as stated: every hand whose four extensions average 0.15 is FORMED.
C9_Average15IsFormed ==
    (classifiedHand /\ extensionSum(landmarks.hands[1]) = 60)
        => newState = FORMED

\* C9, amended: a hand whose four extensions average 0.15 is FORMED unless
\* its pinch distance is below 0.06 and its middle or ring extension is above
\* 0.2, and then it is FOCUSED.
C9_Average15Amended ==
    (classifiedHand /\ extensionSum(landmarks.hands[1]) = 60)
        => newState = IF focusedRule(landmarks.hands[1]) THEN FOCUSED ELSE FORMED

\* A hand with unequal extensions averaging 0.15 and a pinch distance below
\* 0.06 has been classified FORMED.
C9_Witness ==
    /\ classifiedHand
    /\ extensionSum(landmarks.hands[1]) = 60
    /\ indexDist(landmarks.hands[1]) # middleDist(landmarks.hands[1])
    /\ pinchDist(landmarks.hands[1]) < 6
    /\ newState = FORMED

\* C10 as stated: every hand whose four extensions average 0.5 and whose
\* pinch distance is 0.3 is DISPERSED.
C10_Average50IsDispersed ==
    ( /\ classifiedHand
      /\ extensionSum(landmarks.hands[1]) = 200
      /\ pinchDist(landmarks.hands[1]) = 30 )
        => newState = DISPERSED

\* C10, amended: such a hand is DISPERSED unless its index and middle
\* extensions are above 0.35 and its ring and pinky extensions below 0.25,
\* and then it is ROTATING.
C10_Average50Amended ==
    ( /\ classifiedHand
      /\ extensionSum(landmarks.hands[1]) = 200
      /\ pinchDist(landmarks.hands[1]) = 30 )
        => newState = IF rotatingRule(landmarks.hands[1])
                      THEN ROTATING ELSE DISPERSED

\* A hand with unequal extensions averaging 0.5, index and middle above 0.35
\* and ring below 0.25, and pinch distance 0.3, has been classified DISPERSED.
C10_Witness ==
    /\ classifiedHand
    /\ extensionSum(landmarks.hands[1]) = 200
    /\ pinchDist(landmarks.hands[1]) = 30
    /\ indexDist(landmarks.hands[1]) > 35
    /\ middleDist(landmarks.hands[1]) > 35
    /\ ringDist(landmarks.hands[1]) < 25
    /\ newState = DISPERSED


\* The first effect run after the gesture state has changed to FORMED or
\* ROTATING from a state that is neither.
enteredHeart ==
    /\ effectPending
    /\ previousState # gestureState
    /\ previousState' = gestureState
    /\ isFormedOrRotating(gestureState)
    /\ ~isFormedOrRotating(previousState)

\* C11: the cycle count grows by exactly 1 on every entry of the gesture
\* state into {FORMED, ROTATING} from a state outside that set and on no
\* other step (a change between FORMED and ROTATING included), it never
\* decreases, the gallery is visible exactly when the count has reached 2,
\* and once visible it stays visible.
C11_VisibleAfterTwoFormations ==
    [][ /\ cycleCount' = cycleCount + (IF enteredHeart THEN 1 ELSE 0)
        /\ showPhotos' <=> cycleCount' >= 2
        /\ showPhotos => showPhotos' ]_vars

\* The heart has been formed twice and left again: the gallery is visible.
C11_Witness ==
    /\ cycleCount = 2
    /\ showPhotos
    /\ gestureState = DISPERSED
    /\ prevGestureRef = DISPERSED
    /\ ~effectPending

\* C12: the effect run that consumes a change into FOCUSED while the gallery
\* is empty selects nothing: activeIndex and the view counts are unchanged,
\* and while the gallery is empty no entry has a view count.
C12_EmptyGalleryNoSelection ==
    /\ [][ ( /\ effectPending
             /\ gestureState = FOCUSED /\ previousState # FOCUSED
             /\ previousState' = FOCUSED
             /\ Len(images) = 0 )
            => (activeIndex' = activeIndex /\ viewCounts' = viewCounts) ]_vars
    /\ [](Len(images) = 0 => (DOMAIN viewCounts = {} /\ activeIndex = 0))

\* The effect has consumed a change into FOCUSED with an empty gallery.
C12_Witness ==
    /\ gestureState = FOCUSED /\ previousState = FOCUSED
    /\ ~effectPending
    /\ Len(images) = 0
    /\ DOMAIN viewCounts = {}
    /\ activeIndex = 0

\* The model failed to load or the camera stream was refused.
visionFailed == vision = "initError" \/ vision = "cameraError"

\* C16: once the model load or the camera acquisition has failed, the failure
\* stays caught, no detection result is ever published, so the gesture state
\* is DISPERSED in every later state, while the animation tick stays enabled.
C16_FailedStartStaysDispersed ==
    /\ [](visionFailed =>
            /\ gestureState = DISPERSED
            /\ landmarks = NoLandmarks
            /\ ENABLED Tick(1))
    /\ [][visionFailed =>
            /\ vision' = vision
            /\ UNCHANGED <<gestureState, landmarks, handPosRef>> ]_vars

\* The camera was refused; since then a photo was uploaded and the inner
\* group has turned.
C16_Witness ==
    /\ vision = "cameraError"
    /\ gestureState = DISPERSED
    /\ Len(images) = 1
    /\ innerRotY = 2

\* C17: a hand whose middle and ring extensions are both at most 0.2 is never
\* classified FOCUSED, whatever its pinch distance.
C17_FistNeverFocused ==
    ( /\ classifiedHand
      /\ middleDist(landmarks.hands[1]) <= 20
      /\ ringDist(landmarks.hands[1]) <= 20 )
        => newState # FOCUSED

\* A hand with thumb tip on index tip and middle and ring extensions of
\* exactly 0.2 has been classified, and not as FOCUSED.
C17_Witness ==
    /\ classifiedHand
    /\ pinchDist(landmarks.hands[1]) = 0
    /\ middleDist(landmarks.hands[1]) = 20
    /\ ringDist(landmarks.hands[1]) = 20
    /\ newState # FOCUSED

\* C18: a selection scores the targets the photos had in the state left for
\* FOCUSED: the formed targets when that state was FORMED or ROTATING, the
\* dispersed targets otherwise.  The state left is previousState: it equals
\* the gesture state at every change of the gesture state, because every run
\* of the effect, selecting or not, sets it to the current gesture state.
C18_PreFocusTargets ==
    [][ /\ (viewCounts' # viewCounts) =>
              LET preFocus(i) ==
                      IF previousState \in {FORMED, ROTATING}
                      THEN positions[i + 1].formed
                      ELSE positions[i + 1].dispersed
                  cost(i) ==
                      distanceTo(applyMatrix4(preFocus(i), innerRotY), cameraPos)
                          + 50000 * countOf(viewCounts, i)
              IN  \A j \in 0..(Len(images) - 1) : cost(activeIndex') <= cost(j)
        /\ (gestureState' # gestureState) => previousState = gestureState
        /\ (effectPending /\ (~effectPending' \/ viewCounts' # viewCounts))
              => previousState' = gestureState
      ]_vars

\* A selection is being made after FORMED in a gallery whose entry 0 has the
\* nearer formed target and whose entry 1 has the nearer dispersed target:
\* entry 0 is chosen.
C18_Witness ==
    /\ effectPending
    /\ gestureState = FOCUSED /\ previousState = FORMED
    /\ Len(images) = 2
    /\ innerRotY = 0
    /\ DOMAIN viewCounts = {}
    /\ positions[1] = [dispersed |-> <<0, 0, 20>>, formed |-> <<0, 3, 2>>]
    /\ positions[2] = [dispersed |-> <<0, 0, 25>>, formed |-> <<0, -5, -2>>]
    /\ selectBestIndex = 0

\* The view counts of the gallery entries differ by at most 1.
evenlyViewed(counts, n) ==
    \A i, j \in 0..(n - 1) : countOf(counts, i) - countOf(counts, j) <= 1

\* C19: at every selection all world distances are below 500 and the entry
\* chosen has the least view count of the gallery; and a step that adds no
\* photo keeps the view counts within 1 of each other, so that only an
\* upload can open a wider gap.
C19_LeastViewedFirst ==
    [][ /\ (viewCounts' # viewCounts) =>
              \A j \in 0..(Len(images) - 1) :
                  /\ worldDistance(j) < 50000
                  /\ countOf(viewCounts, activeIndex') <= countOf(viewCounts, j)
        /\ ( /\ Len(images') = Len(images)
             /\ evenlyViewed(viewCounts, Len(images)) )
              => evenlyViewed(viewCounts', Len(images'))
      ]_vars

\* The second selection in a gallery of two has just chosen entry 1, the
\* farther one, because the nearer entry 0 had been viewed.
C19_Witness ==
    /\ gestureState = FOCUSED /\ previousState = FOCUSED /\ effectPending
    /\ Len(images) = 2
    /\ innerRotY = 0
    /\ cycleCount = 0
    /\ positions[1].dispersed = <<0, 0, 25>>
    /\ positions[2].dispersed = <<0, 0, 20>>
    /\ countOf(viewCounts, 0) = 1 /\ countOf(viewCounts, 1) = 1
    /\ activeIndex = 1

\* Some rendered photo is flagged as focused.
somePhotoFocused == \E i \in 0..(Len(images) - 1) : isFocused(i)

\* C20: whenever a rendered photo is flagged as focused, the selection of the
\* current FOCUSED episode has been made (the effect has consumed the change
\* into FOCUSED) and the flagged photo is one a selection has chosen, so it
\* has been viewed at least once.
C20_FocusedIsSelected ==
    somePhotoFocused =>
        /\ previousState = FOCUSED
        /\ countOf(viewCounts, activeIndex) >= 1

\* C13: in every frame the opacity target of the photo is 0 while the gallery
\* is not visible, whatever the gesture state and the focus; while it is
\* visible the target is 0.1 for a photo that is not the focused one in state
\* FOCUSED and 0.9 in every other case.
C13_OpacityTarget ==
    time > 0 =>
        /\ ~showPhotos => scene.targetOpacity = 0
        /\ (showPhotos /\ gestureState = FOCUSED /\ ~isFocused(0))
              => scene.targetOpacity = 1000
        /\ (showPhotos /\ (gestureState # FOCUSED \/ isFocused(0)))
              => scene.targetOpacity = 9000

\* A frame has run for the focused photo of a gallery that is not visible:
\* its opacity target is 0 and its opacity still 0.
C13_Witness ==
    /\ time > 0
    /\ ~showPhotos
    /\ isFocused(0)
    /\ scene.targetOpacity = 0
    /\ scene.photoOpacity = 0

\* C14: in every frame in which photo 0 is focused, its local destination is
\* the point that the inner group's world transform of that frame (whatever
\* the group has turned and moved) maps to the world point (0, 0, 20).
C14_FocusTargetFollowsParent ==
    [][ (time' # time /\ isFocused(0))
          => localToWorld(scene'.dest, scene.galleryPos, innerRotY)
                = <<0, 0, 200000>> ]_vars

\* The focused photo's destination after the inner group has drifted from a
\* quarter turn to a half turn during the episode: it lies behind the group.
C14_Witness ==
    /\ isFocused(0)
    /\ time = MaxTicks
    /\ innerRotY = 2
    /\ scene.dest[1] = 0
    /\ scene.dest[3] = -200000

\* a and b are within Epsilon plus slack of each other.
within(a, b, slack) == a - b <= Epsilon + slack /\ b - a <= Epsilon + slack

\* The destination of photo 0 with the offset that depends on the elapsed
\* time left out; for the focused photo, the destination of the last frame.
restingDest ==
    IF isFocused(0) THEN scene.dest
    ELSE IF gestureState = FOCUSED
         THEN <<targetPos(0)[1], targetPos(0)[2], targetPos(0)[3] - 40 * Fine>>
         ELSE targetPos(0)

\* C15 as stated: with gesture state and hand anchor unchanged, after
\* SettleTicks frames photo 0 and the particle are within Epsilon of their
\* targets in every coordinate and stay there.
C15_SettlesWithinEpsilon ==
    time >= SettleTicks =>
        \A c \in 1..3 :
            /\ within(scene.photoPos[c], restingDest[c], 0)
            /\ within(scene.particlePos[c],
                      particleTarget(gestureState, particle)[c], 0)

\* C15, amended: after SettleTicks frames the particle and photo 0, unless it
\* is the focused one, are and stay within Epsilon of their targets in x
\* and z; in y so is the photo when the state is not DISPERSED, while a
\* DISPERSED photo stays within 2 + Epsilon and the particle within
\* 0.1 + Epsilon.
C15_SettlesAmended ==
    time >= SettleTicks =>
        LET target == particleTarget(gestureState, particle) IN
        /\ ~isFocused(0) =>
              /\ within(scene.photoPos[1], restingDest[1], 0)
              /\ within(scene.photoPos[3], restingDest[3], 0)
              /\ within(scene.photoPos[2], restingDest[2],
                        IF gestureState = DISPERSED THEN 2 * Fine ELSE 0)
        /\ within(scene.particlePos[1], target[1], 0)
        /\ within(scene.particlePos[3], target[3], 0)
        /\ within(scene.particlePos[2], target[2], Fine \div 10)

\* After SettleTicks frames a DISPERSED photo has reached its target in x
\* and z and is more than one scene unit away from it in y.
C15_Witness ==
    /\ time >= SettleTicks
    /\ gestureState = DISPERSED
    /\ within(scene.photoPos[1], restingDest[1], 0)
    /\ within(scene.photoPos[3], restingDest[3], 0)
    /\ ~within(scene.photoPos[2], restingDest[2], Fine)

\* The rendered photos that get isFocused = true.
focusedPhotos == { i \in 0..(Len(images) - 1) : isFocused(i) }

\* Whether the photo list old is a prefix of the photo list new.
isPrefix(old, new) ==
    /\ Len(old) <= Len(new)
    /\ \A i \in 1..Len(old) : new[i] = old[i]

\* C21: photos are only appended, and activeIndex is a valid index of the
\* photo list whenever the list is not empty; so exactly one photo is flagged
\* as focused while the state is FOCUSED with a non-empty gallery, and none
\* is in any other state.
C21_ActiveIndexValid ==
    /\ [](/\ Len(images) > 0 => activeIndex \in 0..(Len(images) - 1)
          /\ (gestureState = FOCUSED /\ Len(images) > 0)
                => \E i \in 0..(Len(images) - 1) :
                      /\ isFocused(i)
                      /\ \A j \in 0..(Len(images) - 1) : isFocused(j) => j = i
          /\ gestureState # FOCUSED
                => \A j \in 0..(Len(images) - 1) : ~isFocused(j))
    /\ [][isPrefix(images, images')]_vars

\* C21 witness: the second of two photos was selected and is the one photo
\* flagged as focused.
C21_Witness ==
    /\ gestureState = FOCUSED
    /\ Len(images) = 2
    /\ countOf(viewCounts, 1) > 0
    /\ focusedPhotos = {1}

\* The scale of photo 0 as the frame callback leaves it: x and y are numbers
\* above zero.
scalePositive ==
    /\ scene.photoScale > 0
    /\ ~scene.photoScaleX.nan
    /\ scene.photoScaleX.value > 0

\* C24: a photo's scale is only updated with an interpolated value that is a
\* number above 0.001, so after any sequence of frames the scale of photo 0
\* is strictly positive and never NaN.
C24_ScalePositive == scalePositive

\* The step completes a frame: its last callback returns.
frameCompletes == frame.pc = "gallery" /\ frame'.pc = "idle"

\* The HandAnchor, in the unit of the animated positions.
handAnchor == <<handPosRef[1] * 100, handPosRef[2] * 100, handPosRef[3] * 100>>

\* C22: in every frame the particle group and the photo outer group move
\* towards the same target, which is the origin when the gesture state is
\* FORMED or ROTATING and the current HandAnchor when it is DISPERSED or
\* FOCUSED.
C22_GroupTarget ==
    [][ /\ (frame.pc = "idle" /\ frame'.pc = "gallery")
           => scene'.particlesPos =
                 lerpVector(scene.particlesPos, frame'.particlesTarget, 10)
        /\ frameCompletes
           => /\ scene'.galleryPos =
                    lerpVector(scene.galleryPos, frame'.galleryTarget, 10)
              /\ frame'.particlesTarget = frame'.galleryTarget
              /\ gestureState \in {FORMED, ROTATING}
                    => frame'.galleryTarget = <<0, 0, 0>>
              /\ gestureState \in {DISPERSED, FOCUSED}
                    => frame'.galleryTarget = handAnchor ]_vars

\* C22 witness: a frame has completed in FORMED with the hand away from the
\* centre, after one that drew both groups towards the anchor: the target
\* was the origin, and both groups, still off the origin, moved back alike.
C22_Witness ==
    /\ frame.pc = "idle"
    /\ time = 2
    /\ gestureState = FORMED
    /\ handAnchor # <<0, 0, 0>>
    /\ frame.galleryTarget = <<0, 0, 0>>
    /\ frame.particlesTarget = <<0, 0, 0>>
    /\ scene.galleryPos # <<0, 0, 0>>
    /\ scene.particlesPos = scene.galleryPos

\* The target of the particle that goes with the gesture state.
levelParticleTarget ==
    IF gestureState \in {FORMED, ROTATING, FOCUSED}
    THEN particle.heart ELSE particle.dispersed

\* The target of photo 0 that goes with the gesture state.
levelPhotoTarget ==
    IF gestureState \in {FORMED, ROTATING}
    THEN toFine(positions[1].formed) ELSE toFine(positions[1].dispersed)

\* C23: in every frame, whatever the states before it, the particle heads
\* for its formed target when the gesture state is FORMED, ROTATING or
\* FOCUSED and for its dispersed target otherwise, and photo 0, unless it is
\* the focused one, for its formed target when the state is FORMED or
\* ROTATING and for its dispersed target otherwise (moved back by 40 in
\* FOCUSED, bobbing by up to 2 in DISPERSED).
C23_LevelTriggeredTargets ==
    [][ /\ (frame.pc = "idle" /\ frame'.pc = "gallery")
           => /\ scene'.particlePos[1] =
                    lerp(scene.particlePos[1], levelParticleTarget[1], 5)
              /\ scene'.particlePos[2] =
                    lerp(scene.particlePos[2],
                         levelParticleTarget[2] + noise(time, particle.index), 5)
              /\ scene'.particlePos[3] =
                    lerp(scene.particlePos[3], levelParticleTarget[3], 5)
        /\ (frameCompletes /\ ~isFocused(0))
           => /\ scene'.photoPos = lerpVector(scene.photoPos, scene'.dest, 8)
              /\ scene'.dest[1] = levelPhotoTarget[1]
              /\ gestureState \in {FORMED, ROTATING}
                    => scene'.dest = levelPhotoTarget
              /\ gestureState = FOCUSED
                    => /\ scene'.dest[2] = levelPhotoTarget[2]
                       /\ scene'.dest[3] = levelPhotoTarget[3] - 40 * Fine
              /\ gestureState = DISPERSED
                    => /\ scene'.dest[3] = levelPhotoTarget[3]
                       /\ within(scene'.dest[2], levelPhotoTarget[2],
                                 2 * Fine - Epsilon) ]_vars

\* C23 witness: after the heart was formed, a frame has completed in FOCUSED
\* with photo 1 selected: photo 0 headed for its dispersed target moved back
\* by 40, and the particle has left its dispersed target for the heart.
C23_Witness ==
    /\ frame.pc = "idle"
    /\ time > 0
    /\ gestureState = FOCUSED
    /\ cycleCount > 0
    /\ activeIndex = 1
    /\ countOf(viewCounts, 1) > 0
    /\ scene.dest = <<0, 0, -15 * Fine>>
    /\ scene.particlePos # particle.dispersed

\* C25: a classified hand and every pose with the same x and y but other
\* depths are classified alike; so any two poses that differ only in z,
\* both depth variants of the same flat pose, get the same gesture state.
C25_DepthIgnored ==
    classifiedHand =>
        \A depth \in DepthProfiles :
            detectGesture(Landmarks(<<withDepth(landmarks.hands[1], depth)>>))
                = newState

\* C25 witness: a pinch was classified as FOCUSED, and so is the pose with
\* the same x and y whose thumb tip and index tip lie 0.8 apart in depth.
C25_Witness ==
    /\ classifiedHand
    /\ newState = FOCUSED
    /\ \E depth \in DepthProfiles :
          LET hand == withDepth(landmarks.hands[1], depth) IN
          /\ hand[4].z - hand[8].z = 80
          /\ detectGesture(Landmarks(<<hand>>)) = FOCUSED

\* C26: the gesture state and the HandAnchor change only in a step of the
\* detection callback, which never falls between two callbacks of a frame;
\* so in every frame the particle group and the photo outer group (and with
\* it every photo) read one and the same HandAnchor, the one the last
\* detection before the frame delivered.
C26_SingleWriter ==
    [][ /\ (gestureState' # gestureState \/ handPosRef' # handPosRef)
           => /\ \E result \in SceneResults : PredictWebcam(result)
              /\ frame.pc = "idle"
        /\ (frame.pc = "idle" /\ frame'.pc = "gallery")
           => /\ frame'.began = handPosRef
              /\ frame'.began = publishedAnchor(landmarks)
        /\ frameCompletes
           => /\ frame'.particlesRead = frame'.began
              /\ frame'.galleryRead = frame'.began
              /\ frame'.began = publishedAnchor(landmarks) ]_vars

\* C26 witness: two frames with a detection between them: the first read
\* the anchor of a hand and drew both groups off the origin, the second read
\* the centre delivered since, when no hand was found.
C26_Witness ==
    /\ frame.pc = "idle"
    /\ time = 2
    /\ ~handFound(landmarks)
    /\ handPosRef = <<0, 0, 0>>
    /\ frame.particlesRead = <<0, 0, 0>>
    /\ frame.galleryRead = <<0, 0, 0>>
    /\ scene.galleryPos # <<0, 0, 0>>
    /\ scene.particlesPos = scene.galleryPos

====
